---- MODULE Spec2Model ----
(***************************************************************************)
(* Model of the todo-cli storage and mutation layer: the store file, the   *)
(* advisory lock taken by open_or_init, load_from, atomic_write (temp file *)
(* plus rename) and the four task operations of lib.rs, run by several     *)
(* independent processes against one store path.                           *)
(*                                                                         *)
(* The file system is modelled at the level the code depends on:           *)
(*   - the store path names an inode (or nothing);                         *)
(*   - an inode has bytes and an exclusive advisory lock (flock), which    *)
(*     belongs to the inode, not to the path;                              *)
(*   - a rename makes the path name another inode; the replaced inode      *)
(*     lives on for as long as a process has it open.                      *)
(***************************************************************************)
EXTENDS Integers, Sequences, FiniteSets, TLC

\* ------------------------------------------------------------------ bounds
NumProcs == 2
MaxTime == 3
MaxId == 2
MaxTags == 2

Procs == 1..NumProcs
Ids == 1..MaxId
NumInodes == NumProcs + 1
Inodes == 1..NumInodes

\* Option<TimeStamp>::None
NoTime == 0
\* no inode: the path does not exist / the process has no open handle
NoInode == 0
\* Option<u8>::None of the priority filter
NoPriority == 6

\* what the invocations are drawn from: the (priority, tags) an added task is
\* built with, and the (priority filter, tag filter) a listing is made with
Titles == {"buy milk"}
BuildOf(i) == IF i % 2 = 1 THEN <<0, << >> >> ELSE <<2, <<"Work">> >>
Filters == {<<NoPriority, << >> >>, <<2, <<"work">> >>}

VARIABLES
    path,    \* the inode the store path names, or NoInode
    files,   \* inode -> [used, bytes, lock]
    now,     \* the clock: the value the next TimeStamp::now_utc() returns
    pc,      \* process -> its position in the operation it runs
    op,      \* process -> the operation it was invoked with
    handle,  \* process -> the File it holds: [ino, readable]
    data,    \* process -> the TodoFile it holds in memory
    tmp,     \* process -> its NamedTempFile: [exists, bytes]
    res,     \* process -> the Result its operation returned
    out,     \* process -> the rows list_tasks printed
    pre,     \* (history) process -> the content at the store path when it was invoked
    acked,   \* (history) tasks whose add returned Ok and that no remove has renamed away
    atLock,  \* (history) process -> the content at the store path when it got the lock
    builder, \* the TaskBuilder a caller is chaining on: [state, title, priority, tags]
    built,   \* the Task a caller holds, built by the builder
    call     \* the last call on the builder or the task: [name, argn, args, result, before]

\* what the callers of the Task type hold; the storage layer never touches it
tvars == <<builder, built, call>>

vars == <<path, files, now, pc, op, handle, data, tmp, res, out, pre, acked, atLock,
          builder, built, call>>

\* ------------------------------------------------------------- data model
Build(id, title, priority, tags, t) ==
    [id |-> id, title |-> title, status |-> "Pending", priority |-> priority,
     tags |-> tags, created_at |-> t, updated_at |-> NoTime, completed_at |-> NoTime]

NewTodoFile(t) ==
    [meta |-> [version |-> 1, current_id |-> 1, generated_at |-> t], tasks |-> << >>]

NoTask == Build(0, "", 0, << >>, NoTime)
NoData == NewTodoFile(NoTime)

\* serde_json::to_writer_pretty: the document as the sequence of pieces written,
\* an opening brace, the meta block, one piece per task, the closing brace.
Serialize(doc) ==
    <<[tok |-> "open"], [tok |-> "meta", meta |-> doc.meta]>>
        \o [i \in 1..Len(doc.tasks) |-> [tok |-> "task", task |-> doc.tasks[i]]]
        \o <<[tok |-> "close"]>>

\* What a writer that has not finished has put in the file.
Prefix(bytes) == SubSeq(bytes, 1, Len(bytes) - 1)

\* serde_json::from_reader: the bytes are one complete document.
ParseOk(bytes) ==
    /\ Len(bytes) >= 3
    /\ bytes[1].tok = "open"
    /\ bytes[2].tok = "meta"
    /\ bytes[Len(bytes)].tok = "close"
    /\ \A i \in 3..(Len(bytes) - 1) : bytes[i].tok = "task"

Parse(bytes) ==
    [meta |-> bytes[2].meta, tasks |-> [i \in 1..(Len(bytes) - 3) |-> bytes[i + 2].task]]

\* ------------------------------------------------- in-memory mutations
\* a push that puts the task first
PushFront(tasks, task) == <<task>> \o tasks

\* a push that forgets what was loaded
PushAlone(tasks, task) == <<task>>

\* data.tasks.push(task)
Push(tasks, task) == Append(tasks, task)

\* a find that settles for the first task when the id is absent
FindIdxOrFirst(tasks, id) ==
    IF \E i \in 1..Len(tasks) : tasks[i].id = id
    THEN CHOOSE i \in 1..Len(tasks) :
            /\ tasks[i].id = id
            /\ \A j \in 1..(i - 1) : tasks[j].id # id
    ELSE IF Len(tasks) > 0 THEN 1 ELSE 0

\* data.tasks.iter_mut().find(|t| t.id == id): the first position, 0 for None
FindIdx(tasks, id) ==
    IF \E i \in 1..Len(tasks) : tasks[i].id = id
    THEN CHOOSE i \in 1..Len(tasks) :
            /\ tasks[i].id = id
            /\ \A j \in 1..(i - 1) : tasks[j].id # id
    ELSE 0

\* a completion without the `status != Done` test
MarkDoneAlways(t, time) ==
    [t EXCEPT !.status = "Done", !.updated_at = time, !.completed_at = time]

\* a completion that leaves completed_at alone
MarkDoneNoStamp(t, time) ==
    IF t.status # "Done"
    THEN [t EXCEPT !.status = "Done", !.updated_at = time]
    ELSE t

\* the Some(task) arm of complete_task, given the time now_utc() would return
MarkDone(t, time) ==
    IF t.status # "Done"
    THEN [t EXCEPT !.status = "Done", !.updated_at = time, !.completed_at = time]
    ELSE t

\* a retain that also lets go of everything after the first match
RetainUpTo(tasks, id) ==
    IF \E i \in 1..Len(tasks) : tasks[i].id = id
    THEN SubSeq(tasks, 1, (CHOOSE i \in 1..Len(tasks) :
                            tasks[i].id = id /\ \A j \in 1..(i - 1) : tasks[j].id # id) - 1)
    ELSE tasks

\* data.tasks.retain(|t| t.id != id)
Retain(tasks, id) == SelectSeq(tasks, LAMBDA t : t.id # id)

\* str::to_ascii_lowercase on the tags in use
Lower(s) == CASE s = "Work" -> "work" [] s = "Home" -> "home" [] OTHER -> s

LowerSet(tags) == {Lower(tags[i]) : i \in 1..Len(tags)}

\* a tag filter that one of the requested tags satisfies
ListMatchAnyTag(t, pf, tf) ==
    /\ (pf # NoPriority => t.priority = pf)
    /\ (LowerSet(tf) # {} => LowerSet(tf) \cap LowerSet(t.tags) # {})

\* the two filters of list_tasks
ListMatch(t, pf, tf) ==
    /\ (pf # NoPriority => t.priority = pf)
    /\ (LowerSet(tf) # {} => LowerSet(tf) \subseteq LowerSet(t.tags))

ListFilter(tasks, pf, tf) == SelectSeq(tasks, LAMBDA t : ListMatch(t, pf, tf))

\* ------------------------------------------------------------ file system
FreeInode == [used |-> FALSE, bytes |-> << >>, lock |-> 0]
NoHandle == [ino |-> NoInode, readable |-> FALSE]
NoTmp == [exists |-> FALSE, bytes |-> << >>]

\* the inode a create or a rename gets: the lowest one not in use
NewInode(fs) == CHOOSE i \in Inodes : ~fs[i].used /\ \A j \in 1..(i - 1) : fs[j].used

\* closing p's File gives up the lock it holds
Release(fs, p) ==
    [i \in Inodes |-> IF fs[i].lock = p THEN [fs[i] EXCEPT !.lock = 0] ELSE fs[i]]

\* an inode that no path names and no process has open is gone
Collect(fs, pth, hs) ==
    [i \in Inodes |-> IF i # pth /\ \A q \in Procs : hs[q].ino # i THEN FreeInode ELSE fs[i]]

\* drop(file): close the handle of p, if it has one
Drop(fs, pth, hs, p) == Collect(Release(fs, p), pth, [hs EXCEPT ![p] = NoHandle])

NoContent == [exists |-> FALSE, bytes |-> << >>]

\* Task::builder() not yet called, nothing built, nothing called
NoBuilder == [state |-> "none", title |-> "", priority |-> 0, tags |-> << >>]
NoCall == [name |-> "none", argn |-> 0, args |-> "", result |-> "none", before |-> NoTask]

\* what is stored at the store path
StoreContent ==
    IF path = NoInode THEN NoContent
    ELSE [exists |-> TRUE, bytes |-> files[path].bytes]

\* the task collection a content holds; no file, or no complete document, holds none
TasksOf(c) == IF c.exists /\ ParseOk(c.bytes) THEN Parse(c.bytes).tasks ELSE << >>

Valid(c) == c.exists /\ ParseOk(c.bytes)

AwStages == {"aw_create", "aw_ser", "aw_ser2", "aw_flush", "aw_sync", "aw_persist"}

\* ------------------------------------------------------------------- Init
Init ==
    /\ path = NoInode
    /\ files = [i \in Inodes |-> FreeInode]
    /\ now = 1
    /\ pc = [p \in Procs |-> "idle"]
    /\ op = [p \in Procs |-> [kind |-> "none", id |-> 0, task |-> NoTask,
                              pf |-> NoPriority, tf |-> << >>]]
    /\ handle = [p \in Procs |-> NoHandle]
    /\ data = [p \in Procs |-> NoData]
    /\ tmp = [p \in Procs |-> NoTmp]
    /\ res = [p \in Procs |-> "none"]
    /\ out = [p \in Procs |-> << >>]
    /\ pre = [p \in Procs |-> [exists |-> FALSE, bytes |-> << >>]]
    /\ acked = {}
    /\ atLock = [p \in Procs |-> NoContent]
    /\ builder = NoBuilder
    /\ built = NoTask
    /\ call = NoCall

NoOp == [kind |-> "none", id |-> 0, task |-> NoTask, pf |-> NoPriority, tf |-> << >>]

\* the invocations main() can make; an added task comes from TaskBuilder::build
Invocations ==
    {[kind |-> "add", id |-> i, task |-> Build(i, ti, BuildOf(i)[1], BuildOf(i)[2], now),
      pf |-> NoPriority, tf |-> << >>] :
        i \in Ids, ti \in Titles}
    \cup {[kind |-> k, id |-> i, task |-> NoTask, pf |-> NoPriority, tf |-> << >>] :
        k \in {"complete", "remove"}, i \in Ids}
    \cup {[kind |-> "list", id |-> 0, task |-> NoTask, pf |-> f[1], tf |-> f[2]] :
        f \in Filters}

\* ---------------------------------------------------------------- actions
\* main(): one process is invoked with one verb
Invoke(p) ==
    /\ pc[p] = "idle"
    /\ \E o \in Invocations :
        /\ o.kind = "add" => now <= MaxTime
        /\ op' = [op EXCEPT ![p] = o]
        /\ now' = IF o.kind = "add" THEN now + 1 ELSE now
    /\ pc' = [pc EXCEPT ![p] = "open"]
    /\ UNCHANGED <<path, files, handle, data, tmp, res, out, acked>>
    /\ UNCHANGED <<atLock, tvars>>

\* an invocation, whatever the other processes are doing
Start(p) ==
    /\ Invoke(p)
    /\ pre' = pre

\* invocations that do not overlap: a process starts when no other one runs;
\* the content it finds at the store path is recorded
SeqStart(p) ==
    /\ \A q \in Procs : pc[q] = "idle"
    /\ Invoke(p)
    /\ pre' = [pre EXCEPT ![p] = StoreContent]

\* open_or_init: OpenOptions::new().read(true).write(true).open(path)
Open(p) ==
    /\ pc[p] = "open"
    /\ IF path # NoInode
       THEN /\ handle' = [handle EXCEPT ![p] = [ino |-> path, readable |-> TRUE]]
            /\ pc' = [pc EXCEPT ![p] = "lock"]
       ELSE /\ handle' = handle
            /\ pc' = [pc EXCEPT ![p] = "create"]
    /\ UNCHANGED <<path, files, now, op, data, tmp, res, out, pre, acked>>
    /\ UNCHANGED <<atLock, tvars>>

\* open_or_init, NotFound arm: OpenOptions::new().write(true).create_new(true).open(path)
Create(p) ==
    /\ pc[p] = "create"
    /\ IF path # NoInode
       THEN /\ res' = [res EXCEPT ![p] = "exists"]
            /\ pc' = [pc EXCEPT ![p] = "done"]
            /\ UNCHANGED <<path, files, handle>>
       ELSE LET i == NewInode(files) IN
            /\ files' = [files EXCEPT ![i] = [used |-> TRUE, bytes |-> << >>, lock |-> 0]]
            /\ path' = i
            /\ handle' = [handle EXCEPT ![p] = [ino |-> i, readable |-> FALSE]]
            /\ pc' = [pc EXCEPT ![p] = "seed"]
            /\ res' = res
    /\ UNCHANGED <<now, op, data, tmp, out, pre, acked>>
    /\ UNCHANGED <<atLock, tvars>>

\* open_or_init: to_writer_pretty(&mut file, &TodoFile::new()) has written a part
SeedBegin(p) ==
    /\ pc[p] = "seed"
    /\ now <= MaxTime
    /\ data' = [data EXCEPT ![p] = NewTodoFile(now)]
    /\ now' = now + 1
    /\ files' = [files EXCEPT ![handle[p].ino].bytes = Prefix(Serialize(NewTodoFile(now)))]
    /\ pc' = [pc EXCEPT ![p] = "seed2"]
    /\ UNCHANGED <<path, op, handle, tmp, res, out, pre, acked>>
    /\ UNCHANGED <<atLock, tvars>>

\* open_or_init: to_writer_pretty has written the rest; file.flush()
SeedEnd(p) ==
    /\ pc[p] = "seed2"
    /\ files' = [files EXCEPT ![handle[p].ino].bytes = Serialize(data[p])]
    /\ pc' = [pc EXCEPT ![p] = "lock"]
    /\ UNCHANGED <<path, now, op, handle, data, tmp, res, out, pre, acked>>
    /\ UNCHANGED <<atLock, tvars>>

\* lock_file: file.lock_exclusive() blocks until the inode's lock is free
Lock(p) ==
    /\ pc[p] = "lock"
    /\ files[handle[p].ino].lock = 0
    /\ files' = [files EXCEPT ![handle[p].ino].lock = p]
    /\ pc' = [pc EXCEPT ![p] = "load"]
    /\ atLock' = [atLock EXCEPT ![p] = StoreContent]
    /\ UNCHANGED <<path, now, op, handle, data, tmp, res, out, pre, acked>>
    /\ UNCHANGED tvars

\* load_from(&file)?: rewind and parse; an error returns from the operation,
\* which drops the File
Load(p) ==
    /\ pc[p] = "load"
    /\ IF handle[p].readable /\ ParseOk(files[handle[p].ino].bytes)
       THEN /\ data' = [data EXCEPT ![p] = Parse(files[handle[p].ino].bytes)]
            /\ pc' = [pc EXCEPT ![p] = "loaded"]
            /\ UNCHANGED <<files, handle, res>>
       ELSE /\ res' = [res EXCEPT ![p] = "parse"]
            /\ pc' = [pc EXCEPT ![p] = "done"]
            /\ files' = Drop(files, path, handle, p)
            /\ handle' = [handle EXCEPT ![p] = NoHandle]
            /\ data' = [data EXCEPT ![p] = NoData]
    /\ atLock' = [atLock EXCEPT ![p] = NoContent]
    /\ UNCHANGED <<path, now, op, tmp, out, pre, acked>>
    /\ UNCHANGED tvars

\* add_task: push; the File stays open while atomic_write runs
AddPush(p) ==
    /\ pc[p] = "loaded"
    /\ op[p].kind = "add"
    /\ data' = [data EXCEPT ![p].tasks = Push(data[p].tasks, op[p].task)]
    /\ pc' = [pc EXCEPT ![p] = "aw_create"]
    /\ UNCHANGED <<path, files, now, op, handle, tmp, res, out, pre, acked>>
    /\ UNCHANGED <<atLock, tvars>>

\* complete_task: find, mark, drop(file); bail! when the id is absent
CompleteMark(p) ==
    /\ pc[p] = "loaded"
    /\ op[p].kind = "complete"
    /\ LET i == FindIdx(data[p].tasks, op[p].id) IN
        IF i = 0
        THEN /\ res' = [res EXCEPT ![p] = "notfound"]
             /\ pc' = [pc EXCEPT ![p] = "done"]
             /\ data' = [data EXCEPT ![p] = NoData]
             /\ now' = now
        ELSE /\ data[p].tasks[i].status # "Done" => now <= MaxTime
             /\ data' = [data EXCEPT ![p].tasks[i] = MarkDone(data[p].tasks[i], now)]
             /\ now' = IF data[p].tasks[i].status # "Done" THEN now + 1 ELSE now
             /\ pc' = [pc EXCEPT ![p] = "aw_create"]
             /\ res' = res
    /\ files' = Drop(files, path, handle, p)
    /\ handle' = [handle EXCEPT ![p] = NoHandle]
    /\ UNCHANGED <<path, op, tmp, out, pre, acked>>
    /\ UNCHANGED <<atLock, tvars>>

\* remove_task: retain, compare the lengths, drop(file); bail! when nothing went
RemoveRetain(p) ==
    /\ pc[p] = "loaded"
    /\ op[p].kind = "remove"
    /\ LET kept == Retain(data[p].tasks, op[p].id) IN
        IF Len(kept) = Len(data[p].tasks)
        THEN /\ res' = [res EXCEPT ![p] = "notfound"]
             /\ pc' = [pc EXCEPT ![p] = "done"]
             /\ data' = [data EXCEPT ![p] = NoData]
        ELSE /\ data' = [data EXCEPT ![p].tasks = kept]
             /\ pc' = [pc EXCEPT ![p] = "aw_create"]
             /\ res' = res
    /\ files' = Drop(files, path, handle, p)
    /\ handle' = [handle EXCEPT ![p] = NoHandle]
    /\ UNCHANGED <<path, now, op, tmp, out, pre, acked>>
    /\ UNCHANGED <<atLock, tvars>>

\* a listing that writes what it loaded back
ListPrintAndWrite(p) ==
    /\ pc[p] = "loaded"
    /\ op[p].kind = "list"
    /\ out' = [out EXCEPT ![p] = ListFilter(data[p].tasks, op[p].pf, op[p].tf)]
    /\ data' = [data EXCEPT ![p].meta.version = data[p].meta.version + 1]
    /\ pc' = [pc EXCEPT ![p] = "aw_create"]
    /\ files' = Drop(files, path, handle, p)
    /\ handle' = [handle EXCEPT ![p] = NoHandle]
    /\ UNCHANGED <<path, now, op, res, tmp, pre, acked>>
    /\ UNCHANGED <<atLock, tvars>>

\* list_tasks: print the rows that pass the filters, return Ok
ListPrint(p) ==
    /\ pc[p] = "loaded"
    /\ op[p].kind = "list"
    /\ out' = [out EXCEPT ![p] = ListFilter(data[p].tasks, op[p].pf, op[p].tf)]
    /\ res' = [res EXCEPT ![p] = "ok"]
    /\ pc' = [pc EXCEPT ![p] = "done"]
    /\ files' = Drop(files, path, handle, p)
    /\ handle' = [handle EXCEPT ![p] = NoHandle]
    /\ data' = [data EXCEPT ![p] = NoData]
    /\ UNCHANGED <<path, now, op, tmp, pre, acked>>
    /\ UNCHANGED <<atLock, tvars>>

\* atomic_write: NamedTempFile::new_in(dir)
AwCreate(p) ==
    /\ pc[p] = "aw_create"
    /\ tmp' = [tmp EXCEPT ![p] = [exists |-> TRUE, bytes |-> << >>]]
    /\ pc' = [pc EXCEPT ![p] = "aw_ser"]
    /\ UNCHANGED <<path, files, now, op, handle, data, res, out, pre, acked>>
    /\ UNCHANGED <<atLock, tvars>>

\* a write that goes to the store file itself instead of a temp file
AwSerializeInPlace(p) ==
    /\ pc[p] = "aw_ser"
    /\ path # NoInode
    /\ files' = [files EXCEPT ![path].bytes = Prefix(Serialize(data[p]))]
    /\ tmp' = [tmp EXCEPT ![p].bytes = Prefix(Serialize(data[p]))]
    /\ pc' = [pc EXCEPT ![p] = "aw_ser2"]
    /\ UNCHANGED <<path, now, op, handle, data, res, out, pre, acked>>
    /\ UNCHANGED <<atLock, tvars>>

\* atomic_write: to_writer_pretty(&mut tmp, value) has written a part
AwSerializeBegin(p) ==
    /\ pc[p] = "aw_ser"
    /\ tmp' = [tmp EXCEPT ![p].bytes = Prefix(Serialize(data[p]))]
    /\ pc' = [pc EXCEPT ![p] = "aw_ser2"]
    /\ UNCHANGED <<path, files, now, op, handle, data, res, out, pre, acked>>
    /\ UNCHANGED <<atLock, tvars>>

\* atomic_write: to_writer_pretty has written the rest
AwSerializeEnd(p) ==
    /\ pc[p] = "aw_ser2"
    /\ tmp' = [tmp EXCEPT ![p].bytes = Serialize(data[p])]
    /\ pc' = [pc EXCEPT ![p] = "aw_flush"]
    /\ UNCHANGED <<path, files, now, op, handle, data, res, out, pre, acked>>
    /\ UNCHANGED <<atLock, tvars>>

\* atomic_write: tmp.flush()
AwFlush(p) ==
    /\ pc[p] = "aw_flush"
    /\ pc' = [pc EXCEPT ![p] = "aw_sync"]
    /\ UNCHANGED <<path, files, now, op, handle, data, tmp, res, out, pre, acked>>
    /\ UNCHANGED <<atLock, tvars>>

\* atomic_write: tmp.as_file().sync_all()
AwSync(p) ==
    /\ pc[p] = "aw_sync"
    /\ pc' = [pc EXCEPT ![p] = "aw_persist"]
    /\ UNCHANGED <<path, files, now, op, handle, data, tmp, res, out, pre, acked>>
    /\ UNCHANGED <<atLock, tvars>>

\* atomic_write: tmp.persist(path), the rename: the path names the temp file's inode
AwPersist(p) ==
    /\ pc[p] = "aw_persist"
    /\ LET i == NewInode(files)
           fs == [files EXCEPT ![i] = [used |-> TRUE, bytes |-> tmp[p].bytes, lock |-> 0]]
       IN  /\ files' = Collect(fs, i, handle)
           /\ path' = i
    /\ tmp' = [tmp EXCEPT ![p] = NoTmp]
    /\ acked' = IF op[p].kind = "remove" THEN {t \in acked : t.id # op[p].id} ELSE acked
    /\ pc' = [pc EXCEPT ![p] = "aw_done"]
    /\ UNCHANGED <<now, op, handle, data, res, out, pre>>
    /\ UNCHANGED <<atLock, tvars>>

\* the operation returns Ok(()); add_task's File is dropped here
\* a return that leaves the File, and so its lock, behind
FinishKeepsLock(p) ==
    /\ pc[p] = "aw_done"
    /\ res' = [res EXCEPT ![p] = "ok"]
    /\ pc' = [pc EXCEPT ![p] = "done"]
    /\ acked' = IF op[p].kind = "add" THEN acked \cup {op[p].task} ELSE acked
    /\ data' = [data EXCEPT ![p] = NoData]
    /\ UNCHANGED <<path, files, handle, now, op, tmp, out, pre>>
    /\ UNCHANGED <<atLock, tvars>>

Finish(p) ==
    /\ pc[p] = "aw_done"
    /\ res' = [res EXCEPT ![p] = "ok"]
    /\ pc' = [pc EXCEPT ![p] = "done"]
    /\ files' = Drop(files, path, handle, p)
    /\ handle' = [handle EXCEPT ![p] = NoHandle]
    /\ acked' = IF op[p].kind = "add" THEN acked \cup {op[p].task} ELSE acked
    /\ data' = [data EXCEPT ![p] = NoData]
    /\ UNCHANGED <<path, now, op, tmp, out, pre>>
    /\ UNCHANGED <<atLock, tvars>>

\* atomic_write: any of its stages fails; `?` returns the error, the temp file
\* is deleted when tmp is dropped, add_task's File is dropped
AwFail(p) ==
    /\ pc[p] \in AwStages
    /\ res' = [res EXCEPT ![p] = "io"]
    /\ pc' = [pc EXCEPT ![p] = "done"]
    /\ tmp' = [tmp EXCEPT ![p] = NoTmp]
    /\ files' = Drop(files, path, handle, p)
    /\ handle' = [handle EXCEPT ![p] = NoHandle]
    /\ data' = [data EXCEPT ![p] = NoData]
    /\ UNCHANGED <<path, now, op, out, pre, acked>>
    /\ UNCHANGED <<atLock, tvars>>

\* the process is killed inside atomic_write: nothing returns, its File is
\* closed by the system; the temp file stays behind under its own name, which
\* no operation ever opens
Interrupt(p) ==
    /\ pc[p] \in AwStages
    /\ res' = [res EXCEPT ![p] = "killed"]
    /\ pc' = [pc EXCEPT ![p] = "done"]
    /\ tmp' = [tmp EXCEPT ![p] = NoTmp]
    /\ files' = Drop(files, path, handle, p)
    /\ handle' = [handle EXCEPT ![p] = NoHandle]
    /\ data' = [data EXCEPT ![p] = NoData]
    /\ UNCHANGED <<path, now, op, out, pre, acked>>
    /\ UNCHANGED <<atLock, tvars>>

\* the process has exited (its memory went with the return); its slot stands
\* for the next invocation
Exit(p) ==
    /\ pc[p] = "done"
    /\ pc' = [pc EXCEPT ![p] = "idle"]
    /\ op' = [op EXCEPT ![p] = NoOp]
    /\ res' = [res EXCEPT ![p] = "none"]
    /\ out' = [out EXCEPT ![p] = << >>]
    /\ pre' = [pre EXCEPT ![p] = [exists |-> FALSE, bytes |-> << >>]]
    /\ UNCHANGED <<path, files, now, handle, data, tmp, acked>>
    /\ UNCHANGED <<atLock, tvars>>

Step(p) ==
    \/ Open(p) \/ Create(p) \/ SeedBegin(p) \/ SeedEnd(p) \/ Lock(p) \/ Load(p)
    \/ AddPush(p) \/ CompleteMark(p) \/ RemoveRetain(p) \/ ListPrint(p)
    \/ AwCreate(p) \/ AwSerializeBegin(p) \/ AwSerializeEnd(p) \/ AwFlush(p)
    \/ AwSync(p) \/ AwPersist(p) \/ Finish(p) \/ AwFail(p) \/ Interrupt(p) \/ Exit(p)

\* processes running concurrently
Next == \E p \in Procs : Start(p) \/ Step(p)

Spec == Init /\ [][Next]_vars

\* ------------------------------------------------ the Task type (model.rs)
\* what a caller may pass to the builder and to the Task's methods
TitleInputs == {"", "buy milk"}
PriorityInputs == {0, 5, 6}
TagInputs == {"Work", "work"}

corevars == <<path, files, pc, op, handle, data, tmp, res, out, pre, acked, atLock>>

\* an assert that lets 6 through
PriorityOkLoose(p) == p \in 0..6

\* assert!((0..=5).contains(&p))
PriorityOk(p) == p \in 0..5

\* s.eq_ignore_ascii_case(&tag) for some s of the tags
HasTag(tags, t) == \E i \in 1..Len(tags) : Lower(tags[i]) = Lower(t)

\* Task::builder()
BuilderNew ==
    /\ builder.state = "none"
    /\ builder' = [state |-> "MissingTitle", title |-> "", priority |-> 0, tags |-> << >>]
    /\ call' = [name |-> "builder", argn |-> 0, args |-> "", result |-> "ok", before |-> built]
    /\ UNCHANGED <<built, now, corevars>>

\* TaskBuilder<MissingTitle>::title
BuilderTitle(t) ==
    /\ builder.state = "MissingTitle"
    /\ builder' = [builder EXCEPT !.state = "HasTitle", !.title = t]
    /\ call' = [name |-> "title", argn |-> 0, args |-> t, result |-> "ok", before |-> built]
    /\ UNCHANGED <<built, now, corevars>>

\* TaskBuilder::priority: the assert panics and the chain is gone
BuilderPriority(p) ==
    /\ builder.state \in {"MissingTitle", "HasTitle"}
    /\ IF PriorityOk(p)
       THEN /\ builder' = [builder EXCEPT !.priority = p]
            /\ call' = [name |-> "priority", argn |-> p, args |-> "", result |-> "ok",
                        before |-> built]
       ELSE /\ builder' = NoBuilder
            /\ call' = [name |-> "priority", argn |-> p, args |-> "", result |-> "panic",
                        before |-> built]
    /\ UNCHANGED <<built, now, corevars>>

\* TaskBuilder::tag
BuilderTag(t) ==
    /\ builder.state \in {"MissingTitle", "HasTitle"}
    /\ Len(builder.tags) < MaxTags
    /\ builder' = [builder EXCEPT !.tags = Append(builder.tags, t)]
    /\ call' = [name |-> "tag", argn |-> 0, args |-> t, result |-> "ok", before |-> built]
    /\ UNCHANGED <<built, now, corevars>>

\* TaskBuilder<HasTitle>::build
BuilderBuild ==
    /\ builder.state = "HasTitle"
    /\ now <= MaxTime
    /\ \E i \in Ids :
        built' = Build(i, builder.title, builder.priority, builder.tags, now)
    /\ now' = now + 1
    /\ builder' = NoBuilder
    /\ call' = [name |-> "build", argn |-> 0, args |-> "", result |-> "ok", before |-> built]
    /\ UNCHANGED corevars

\* Task::set_priority: nothing when the value is the current one, else the
\* assert, then the assignment and the timestamp
TaskSetPriority(p) ==
    /\ built.id # 0
    /\ IF built.priority = p
       THEN /\ UNCHANGED <<built, now>>
            /\ call' = [name |-> "set_priority", argn |-> p, args |-> "", result |-> "ok",
                        before |-> built]
       ELSE IF ~PriorityOk(p)
       THEN /\ UNCHANGED <<built, now>>
            /\ call' = [name |-> "set_priority", argn |-> p, args |-> "",
                        result |-> "panic", before |-> built]
       ELSE /\ now <= MaxTime
            /\ built' = [built EXCEPT !.priority = p, !.updated_at = now]
            /\ now' = now + 1
            /\ call' = [name |-> "set_priority", argn |-> p, args |-> "", result |-> "ok",
                        before |-> built]
    /\ UNCHANGED <<builder, corevars>>

\* Task::add_tag
TaskAddTag(t) ==
    /\ built.id # 0
    /\ IF HasTag(built.tags, t)
       THEN UNCHANGED <<built, now>>
       ELSE /\ now <= MaxTime
            /\ Len(built.tags) < MaxTags + 1
            /\ built' = [built EXCEPT !.tags = Append(built.tags, t), !.updated_at = now]
            /\ now' = now + 1
    /\ call' = [name |-> "add_tag", argn |-> 0, args |-> t, result |-> "ok", before |-> built]
    /\ UNCHANGED <<builder, corevars>>

\* a caller working on one Task
TaskNext ==
    \/ BuilderNew
    \/ \E t \in TitleInputs : BuilderTitle(t)
    \/ \E q \in PriorityInputs : BuilderPriority(q)
    \/ \E t \in TagInputs : BuilderTag(t)
    \/ BuilderBuild
    \/ \E q \in PriorityInputs : TaskSetPriority(q)
    \/ \E t \in TagInputs : TaskAddTag(t)

TaskSpec == Init /\ [][TaskNext]_vars

\* --------------------------------------------- list_tasks on a given store
\* the tasks of the store and the filters of the invocation
ListTaskInputs == {<<0, << >> >>, <<2, <<"Work">> >>, <<0, <<"École">> >>,
                   <<2, <<"Work", "Home">> >>}
ListFilters == {<<pf, tf>> : pf \in {NoPriority, 2},
                             tf \in {<< >>, <<"work">>, <<"école">>, <<"home", "work">>}}

\* the collections earlier adds have left: up to MaxId tasks made at time 1
ListStores ==
    UNION {{[k \in 1..n |-> Build(k, "buy milk", f[k][1], f[k][2], 1)] :
                f \in [1..n -> ListTaskInputs]} : n \in 0..MaxId}

\* a store that earlier invocations have written, and no process running
ListInit ==
    /\ \E ts \in ListStores :
        files = [i \in Inodes |->
                    IF i = 1
                    THEN [used |-> TRUE, lock |-> 0,
                          bytes |-> Serialize([meta |-> NewTodoFile(1).meta, tasks |-> ts])]
                    ELSE FreeInode]
    /\ path = 1
    /\ now = 2
    /\ pc = [p \in Procs |-> "idle"]
    /\ op = [p \in Procs |-> [kind |-> "none", id |-> 0, task |-> NoTask,
                              pf |-> NoPriority, tf |-> << >>]]
    /\ handle = [p \in Procs |-> NoHandle]
    /\ data = [p \in Procs |-> NoData]
    /\ tmp = [p \in Procs |-> NoTmp]
    /\ res = [p \in Procs |-> "none"]
    /\ out = [p \in Procs |-> << >>]
    /\ pre = [p \in Procs |-> NoContent]
    /\ acked = {}
    /\ atLock = [p \in Procs |-> NoContent]
    /\ builder = NoBuilder
    /\ built = NoTask
    /\ call = NoCall

\* main(): Verb::List, invoked when no other process runs
ListStart(p) ==
    /\ \A q \in Procs : pc[q] = "idle"
    /\ \E f \in ListFilters :
        op' = [op EXCEPT ![p] = [kind |-> "list", id |-> 0, task |-> NoTask,
                                 pf |-> f[1], tf |-> f[2]]]
    /\ pc' = [pc EXCEPT ![p] = "open"]
    /\ pre' = [pre EXCEPT ![p] = StoreContent]
    /\ UNCHANGED <<path, files, now, handle, data, tmp, res, out, acked>>
    /\ UNCHANGED <<atLock, tvars>>

ListNext ==
    \E p \in Procs :
        ListStart(p) \/ Open(p) \/ Lock(p) \/ Load(p) \/ ListPrint(p) \/ Exit(p)

ListSpec == ListInit /\ [][ListNext]_vars

\* --------------------------------- a finite number of concurrent operations
\* the steps a running process takes by itself once the scheduler runs it
Run(p) ==
    \/ Open(p) \/ Create(p) \/ SeedBegin(p) \/ SeedEnd(p) \/ Lock(p) \/ Load(p)
    \/ AddPush(p) \/ CompleteMark(p) \/ RemoveRetain(p) \/ ListPrint(p)
    \/ AwCreate(p) \/ AwSerializeBegin(p) \/ AwSerializeEnd(p) \/ AwFlush(p)
    \/ AwSync(p) \/ AwPersist(p) \/ Finish(p)

\* each process is invoked at most once; a stage of atomic_write may fail
LiveNext == \E p \in Procs : Start(p) \/ Run(p) \/ AwFail(p)

\* the scheduler runs every process that can take a step; flock wakes a waiter
\* when the lock is free
LiveSpec == Init /\ [][LiveNext]_vars /\ \A p \in Procs : WF_vars(Run(p))

\* processes running one after the other
SeqNext == \E p \in Procs : SeqStart(p) \/ Step(p)

SeqSpec == Init /\ [][SeqNext]_vars

\* ------------------------------------------------------------ properties
StoreTasks == TasksOf(StoreContent)

IdsOf(tasks) == {tasks[i].id : i \in 1..Len(tasks)}

Returned(p) == pc[p] = "done" /\ res[p] # "killed"

\* C1: starting from a state in which the store file does not exist, a single
\* add returns success, and afterwards the file exists and holds exactly one
\* task, the added one, with status Pending.
C1_FirstAddCreatesStore ==
    \A p \in Procs :
        (Returned(p) /\ op[p].kind = "add" /\ ~pre[p].exists) =>
            /\ res[p] = "ok"
            /\ Valid(StoreContent)
            /\ StoreTasks = <<op[p].task>>
            /\ op[p].task.status = "Pending"

\* C2: an add that returns success leaves the previous task collection, in the
\* same order and unmodified, with the new task appended last; an add that
\* does not return success leaves the task collection unchanged.
C2_AddAppends ==
    \A p \in Procs :
        (pc[p] = "done" /\ op[p].kind = "add") =>
            IF res[p] = "ok"
            THEN /\ Valid(StoreContent)
                 /\ StoreTasks = Append(TasksOf(pre[p]), op[p].task)
                 /\ Len(StoreTasks) = Len(TasksOf(pre[p])) + 1
            ELSE StoreTasks = TasksOf(pre[p])

\* an add has succeeded on a store that already held a task
C2_Witness ==
    \E p \in Procs :
        /\ pc[p] = "done" /\ op[p].kind = "add" /\ res[p] = "ok"
        /\ Len(TasksOf(pre[p])) >= 1

C4_NoTaskLost ==
    \A t \in acked :
        \E i \in 1..Len(StoreTasks) :
            StoreTasks[i].id = t.id /\ StoreTasks[i].created_at = t.created_at

\* two adds have returned success one after the other, and all is quiet
C4_Witness ==
    /\ Cardinality(acked) >= 2
    /\ \A p \in Procs : pc[p] = "idle"

\* C5: at most one process at a time holds the exclusive lock taken through
\* open_or_init on the store path.
C5_OneLockHolder ==
    Cardinality({p \in Procs : \E i \in Inodes : files[i].lock = p}) <= 1

\* C6: whenever open_or_init has returned a handle, the file behind it holds
\* a complete serialized TodoFile.
C6_OpenedFileIsComplete ==
    \A p \in Procs :
        pc[p] = "load" => ParseOk(files[handle[p].ino].bytes)

\* C7: complete and remove with an identifier that no task of the store has
\* return a not-found error and leave the content at the store path as it was.
C7_NotFoundWritesNothing ==
    \A p \in Procs :
        (/\ pc[p] = "done"
         /\ op[p].kind \in {"complete", "remove"}
         /\ Valid(pre[p])
         /\ op[p].id \notin IdsOf(TasksOf(pre[p]))) =>
            /\ res[p] = "notfound"
            /\ StoreContent = pre[p]

\* a remove of an absent identifier has returned on a store that holds a task
C7_Witness ==
    \E p \in Procs :
        /\ pc[p] = "done" /\ op[p].kind = "remove" /\ res[p] = "notfound"
        /\ Len(TasksOf(pre[p])) >= 1

\* C8: an add of a task whose identifier a stored task already has fails with
\* a duplicate error and leaves the store unchanged, so the identifiers of the
\* stored tasks are pairwise distinct.
C8_NoDuplicateIds ==
    /\ \A i, j \in 1..Len(StoreTasks) : i # j => StoreTasks[i].id # StoreTasks[j].id
    /\ \A p \in Procs :
        (/\ Returned(p)
         /\ op[p].kind = "add"
         /\ op[p].id \in IdsOf(TasksOf(pre[p]))) =>
            /\ res[p] = "duplicate"
            /\ StoreContent = pre[p]

\* C9: a complete that succeeds leaves the task Done with completed_at set,
\* and when the task was Done already, with the completed_at it had.
C9_IdempotentComplete ==
    \A p \in Procs :
        (pc[p] = "done" /\ op[p].kind = "complete" /\ res[p] = "ok") =>
            LET i == FindIdx(TasksOf(pre[p]), op[p].id)
                old == TasksOf(pre[p])[i]
                new == StoreTasks[i]
            IN  /\ i # 0
                /\ Len(StoreTasks) = Len(TasksOf(pre[p]))
                /\ new.status = "Done"
                /\ new.completed_at # NoTime
                /\ old.status = "Done" => new.completed_at = old.completed_at

\* a second complete of a task has returned success
C9_Witness ==
    \E p \in Procs :
        /\ pc[p] = "done" /\ op[p].kind = "complete" /\ res[p] = "ok"
        /\ TasksOf(pre[p])[FindIdx(TasksOf(pre[p]), op[p].id)].status = "Done"

\* C10: with invocations that do not overlap, every stored task has
\* completed_at set if and only if its status is Done, and a completed_at that
\* is set does not change as long as the task is stored.
C10_CompletedAt ==
    /\ [](\A i \in 1..Len(StoreTasks) :
            StoreTasks[i].completed_at # NoTime <=> StoreTasks[i].status = "Done")
    /\ [][\A i \in 1..Len(StoreTasks) : \A j \in 1..Len(StoreTasks') :
            (/\ StoreTasks[i].completed_at # NoTime
             /\ StoreTasks'[j].id = StoreTasks[i].id
             /\ StoreTasks'[j].created_at = StoreTasks[i].created_at) =>
                StoreTasks'[j].completed_at = StoreTasks[i].completed_at]_vars

\* a listing has printed a task that is Done
C10_Witness ==
    \E p \in Procs :
        /\ pc[p] = "done" /\ op[p].kind = "list" /\ res[p] = "ok"
        /\ \E i \in 1..Len(out[p]) :
            out[p][i].status = "Done" /\ out[p][i].completed_at # NoTime

\* C11: a remove of an identifier the store has does not fail with not-found;
\* when it succeeds the store holds the previous tasks without those of that
\* identifier, the others unmodified and in their order, so that a following
\* remove of the same identifier finds nothing.
C11_RemoveDeletes ==
    \A p \in Procs :
        (/\ pc[p] = "done"
         /\ op[p].kind = "remove"
         /\ Valid(pre[p])
         /\ op[p].id \in IdsOf(TasksOf(pre[p]))) =>
            /\ res[p] # "notfound"
            /\ res[p] = "ok" =>
                /\ Valid(StoreContent)
                /\ StoreTasks = SelectSeq(TasksOf(pre[p]), LAMBDA t : t.id # op[p].id)
                /\ op[p].id \notin IdsOf(StoreTasks)
            /\ res[p] # "ok" => StoreContent = pre[p]

\* a remove has succeeded and has left another task in the store
C11_Witness ==
    \E p \in Procs :
        /\ pc[p] = "done" /\ op[p].kind = "remove" /\ res[p] = "ok"
        /\ Len(TasksOf(pre[p])) >= 2
        /\ Len(StoreTasks) >= 1

\* C12: every add, complete or remove that returns success leaves meta.version
\* one higher than it found it; a listing and an operation that returns an
\* error leave it as it was.
C12_VersionBumped ==
    \A p \in Procs :
        (Returned(p) /\ Valid(pre[p])) =>
            /\ Valid(StoreContent)
            /\ Parse(StoreContent.bytes).meta.version =
                  IF op[p].kind \in {"add", "complete", "remove"} /\ res[p] = "ok"
                  THEN Parse(pre[p].bytes).meta.version + 1
                  ELSE Parse(pre[p].bytes).meta.version

\* C13: a listing of an existing store leaves the content at the store path
\* (tasks and metadata) as it found it and never enters atomic_write.
C13_ListReadOnly ==
    \A p \in Procs :
        op[p].kind = "list" =>
            /\ pc[p] \notin AwStages \cup {"aw_done"}
            /\ ~tmp[p].exists
            /\ (pc[p] = "done" /\ pre[p].exists) => StoreContent = pre[p]

\* a filtered listing has returned Ok on a store that holds a task
C13_Witness ==
    \E p \in Procs :
        /\ pc[p] = "done" /\ op[p].kind = "list" /\ res[p] = "ok"
        /\ op[p].pf # NoPriority
        /\ Len(StoreTasks) >= 1

\* C18: no process holds the lock while it is inside atomic_write (creating,
\* writing, syncing or renaming the temp file): every mutating operation has
\* closed its handle before.
C18_NoLockInAtomicWrite ==
    \A p \in Procs :
        pc[p] \in AwStages =>
            /\ handle[p] = NoHandle
            /\ \A i \in Inodes : files[i].lock # p

\* C19: what a process loads is the aggregate that was at the store path
\* when it got the lock (where a complete aggregate was there then).
C19_LoadsWhatWasAtPath ==
    [][\A p \in Procs :
        (pc[p] = "load" /\ pc'[p] = "loaded" /\ Valid(atLock[p])) =>
            data'[p] = Parse(atLock[p].bytes)]_vars

C16_TitleNonEmpty ==
    /\ built.id # 0 => built.title # ""
    /\ (call.name = "title" /\ call.args = "") => call.result = "validation"

\* C17: no two tags of a task are equal ignoring case, and an add_tag of a tag
\* the task has, ignoring case, leaves the tags and updated_at as they were.
C17_TagsUnique ==
    /\ built.id # 0 =>
        \A i, j \in 1..Len(built.tags) :
            i # j => Lower(built.tags[i]) # Lower(built.tags[j])
    /\ (call.name = "add_tag" /\ HasTag(call.before.tags, call.args)) =>
        /\ built.tags = call.before.tags
        /\ built.updated_at = call.before.updated_at

\* full case folding of the tags in use, where to_ascii_lowercase folds A-Z only
FoldCase(s) == CASE s = "École" -> "école" [] OTHER -> Lower(s)

\* C14 as stated: a list that returns Ok yields, in collection order, exactly
\* the stored tasks whose priority is the priority filter, when there is one,
\* and which have, ignoring case, every tag of the tag filter.
C14_ListIgnoringCase ==
    \A p \in Procs :
        (pc[p] = "done" /\ op[p].kind = "list" /\ Valid(pre[p])) =>
            /\ res[p] = "ok"
            /\ out[p] = SelectSeq(TasksOf(pre[p]), LAMBDA t :
                    /\ (op[p].pf = NoPriority \/ t.priority = op[p].pf)
                    /\ \A i \in 1..Len(op[p].tf) : \E j \in 1..Len(t.tags) :
                            FoldCase(op[p].tf[i]) = FoldCase(t.tags[j]))

\* C14 amended: the same, with tags compared ignoring ASCII case only.
C14_ListIgnoringAsciiCase ==
    \A p \in Procs :
        (pc[p] = "done" /\ op[p].kind = "list" /\ Valid(pre[p])) =>
            /\ res[p] = "ok"
            /\ out[p] = SelectSeq(TasksOf(pre[p]), LAMBDA t :
                    /\ (op[p].pf = NoPriority \/ t.priority = op[p].pf)
                    /\ \A i \in 1..Len(op[p].tf) : \E j \in 1..Len(t.tags) :
                            Lower(op[p].tf[i]) = Lower(t.tags[j]))

\* a list with both filters has yielded one of two stored tasks
C14_Witness ==
    \E p \in Procs :
        /\ pc[p] = "done" /\ op[p].kind = "list" /\ res[p] = "ok"
        /\ op[p].pf # NoPriority /\ Len(op[p].tf) = 2
        /\ Len(out[p]) = 1 /\ Len(TasksOf(pre[p])) = 2

\* C20: whenever some invoked operation has not returned, some process can
\* take a step; a process waiting for the lock gets it; every invoked
\* operation returns.
C20_Progress ==
    /\ []((\E p \in Procs : pc[p] \notin {"idle", "done"}) =>
            \E p \in Procs : ENABLED Run(p))
    /\ \A p \in Procs : (pc[p] = "lock") ~> (pc[p] = "load")
    /\ \A p \in Procs : (pc[p] # "idle") ~> (pc[p] = "done")

\* a process waits for the lock that another one holds inside atomic_write
C20_Witness ==
    \E p, q \in Procs :
        /\ p # q
        /\ pc[p] = "lock" /\ files[handle[p].ino].lock = q
        /\ pc[q] \in AwStages

====
